---- MODULE Spec2Model ----
(***************************************************************************)
(* Model of bot.py: a Telegram card bot.  The module covers                *)
(*   - the engagement throttle record_question_and_should_offer and its    *)
(*     two module-level maps user_question_times / user_offer_until,       *)
(*   - the stable day-card choice stable_choice_for_user_today,            *)
(*   - the handlers of the router and the per-user FSM state they drive.   *)
(* Time is the UTC wall clock in whole seconds.                            *)
(***************************************************************************)
EXTENDS Integers, Sequences, FiniteSets, TLC

\* ------------------------------------------------------------------ settings
QUESTIONS_WINDOW_SECONDS == 30 * 60
QUESTIONS_LIMIT == 5
COOLDOWN_SECONDS == 6 * 60 * 60
\* maxlen of every deque of user_question_times
MAXLEN == 50
\* answer_question takes a stripped text of at least this many characters
MIN_QUESTION_LEN == 3
\* USER_TZ = Europe/Amsterdam: UTC+1 on the days of the model (January 1970)
USER_TZ_OFFSET == 3600
SECONDS_PER_DAY == 86400

\* ------------------------------------------------------------------ bounds
\* user ids that send events
Users == {7, 42}
\* calls of record_question_and_should_offer per user in the scenario harness
MaxCalls == 10
\* calls per user in the long-session harness (enough to overflow one deque
\* during a cooldown that follows a first offer)
MaxLongCalls == 57
\* instants at which the scenario harness may call the throttle
ScenarioTimes == {0, 10, 20, 30, 40, 41, 100, 200, 300, 2000, 21639, 21640, 21641}
\* instants of the long-session harness: T, T + 1, T + COOLDOWN - 1, T + COOLDOWN
LongTimes == {0, 1, COOLDOWN_SECONDS - 1, COOLDOWN_SECONDS}
\* questions the running bot records in a run with one user
MaxQuestions == 5
\* questions the running bot records, all users together, in a run with all users
MaxTwoQuestions == 1
\* clock readings of the running bot: 00:00 UTC and 23:00 UTC of 1970-01-01
\* (01:00 of the 1st and 00:00 of the 2nd in Amsterdam) and 00:00 UTC of the 2nd
BotTimes == {0, 82800, 86400}
\* clock readings of the runs with all users: one date in Amsterdam, two in UTC
TwoTimes == {82800, 86400}

\* questions the running bot records, all users together, in a run in which
\* the users only ask questions
MaxPairQuestions == 7
\* clock readings of those runs: two instants of one window, one past it
PairTimes == {0, 60, 1900}

VARIABLES
    now,                  \* last reading of the UTC wall clock (seconds)
    user_question_times,  \* user id -> deque of timestamps (a sequence)
    user_offer_until,     \* user id -> end of the cooldown
    ret,                  \* user id -> last value returned by the throttle
    calls,                \* user id -> number of throttle calls so far
    asked,                \* user id -> every timestamp passed to the throttle
                          \*            since its last TRUE (history variable)
    offers,               \* user id -> the instants at which the throttle
                          \*            returned TRUE (history variable)
    reference,            \* user id -> the log and the cooldown end of a throttle
                          \*            fed the same calls that keeps its log in
                          \*            a deque without maxlen (history variable)
    mainPc,               \* "start" before main() has run, "polling" after
    tarotError,           \* the exception load_cards(CARDS_JSON) raised, or "none"
    TAROT_CARDS,          \* the tarot deck (a sequence of card names)
    MIND_CARDS,           \* the response deck
    fsm,                  \* user id -> FSM state: "none" or "waiting_for_question"
    task,                 \* user id -> the handler running for the user: its name,
                          \*            the update it handles, the calls it still awaits
    offersShown,          \* user id -> consultation prompts sent to the user
    dayDrawn,             \* user id -> the <<clock reading, card>> pairs of the
                          \*            draws of day_card (history variable)
    promptLog             \* user id -> the prompts for a question sent to the
                          \*            user, and the greetings of /start sent
                          \*            after the first of them (history variable)

throttleVars == <<user_question_times, user_offer_until, ret, calls, asked, offers, reference>>
botVars == <<mainPc, tarotError, TAROT_CARDS, MIND_CARDS, fsm, task, offersShown, dayDrawn, promptLog>>
vars == <<now, throttleVars, botVars>>

\* ------------------------------------------------------------------ throttle
\* deque(maxlen=50).append: a full deque drops its oldest element
DequeAppend_Refuse(dq, x) == IF Len(dq) >= MAXLEN THEN dq ELSE Append(dq, x)
DequeAppend_Left(dq, x) ==
    IF Len(dq) >= MAXLEN THEN <<x>> \o SubSeq(dq, 1, Len(dq) - 1) ELSE <<x>> \o dq
DequeAppend_Maxlen4(dq, x) ==
    IF Len(dq) >= QUESTIONS_LIMIT - 1 THEN Append(Tail(dq), x) ELSE Append(dq, x)
DequeAppend(dq, x) ==
    IF Len(dq) >= MAXLEN THEN Append(Tail(dq), x) ELSE Append(dq, x)

\* while dq and dq[0] < cutoff: dq.popleft()
RECURSIVE PopExpired(_, _)
PopExpired_Keep(dq, cutoff) == dq
RECURSIVE PopExpired_Inclusive(_, _)
PopExpired_Inclusive(dq, cutoff) ==
    IF dq # <<>> /\ Head(dq) <= cutoff THEN PopExpired_Inclusive(Tail(dq), cutoff) ELSE dq
PopExpired(dq, cutoff) ==
    IF dq # <<>> /\ Head(dq) < cutoff THEN PopExpired(Tail(dq), cutoff) ELSE dq

\* len(dq) >= QUESTIONS_LIMIT
ReachedLimit_Over(dq) == Len(dq) > QUESTIONS_LIMIT
ReachedLimit(dq) == Len(dq) >= QUESTIONS_LIMIT

\* user_offer_until[user_id] = now_ts + COOLDOWN_SECONDS
NextOfferUntil_Window(now_ts) == now_ts + QUESTIONS_WINDOW_SECONDS
NextOfferUntil(now_ts) == now_ts + COOLDOWN_SECONDS

\* dq.clear()
DequeClear_Keep(dq) == dq
DequeClear(dq) == <<>>

\* record_question_and_should_offer on one user's deque and cooldown end:
\* the new deque, the new cooldown end and the returned boolean
record_question_and_should_offer_Reset(times, until, now_ts) ==
    IF now_ts < until
    THEN [times |-> DequeAppend(times, now_ts), until |-> until, ret |-> FALSE]
    ELSE LET dq == PopExpired(DequeAppend(times, now_ts),
                              now_ts - QUESTIONS_WINDOW_SECONDS)
         IN  IF ReachedLimit(dq)
             THEN [times |-> DequeClear(dq),
                   until |-> NextOfferUntil(now_ts),
                   ret   |-> TRUE]
             ELSE [times |-> dq, until |-> 0, ret |-> FALSE]
record_question_and_should_offer(times, until, now_ts) ==
    IF now_ts < until
    THEN [times |-> DequeAppend(times, now_ts), until |-> until, ret |-> FALSE]
    ELSE LET dq == PopExpired(DequeAppend(times, now_ts),
                              now_ts - QUESTIONS_WINDOW_SECONDS)
         IN  IF ReachedLimit(dq)
             THEN [times |-> DequeClear(dq),
                   until |-> NextOfferUntil(now_ts),
                   ret   |-> TRUE]
             ELSE [times |-> dq, until |-> until, ret |-> FALSE]

\* the throttle with deque() in place of deque(maxlen=50)
reference_throttle(times, until, now_ts) ==
    IF now_ts < until
    THEN [times |-> Append(times, now_ts), until |-> until, ret |-> FALSE]
    ELSE LET dq == PopExpired(Append(times, now_ts), now_ts - QUESTIONS_WINDOW_SECONDS)
         IN  IF Len(dq) >= QUESTIONS_LIMIT
             THEN [times |-> <<>>, until |-> now_ts + COOLDOWN_SECONDS, ret |-> TRUE]
             ELSE [times |-> dq, until |-> until, ret |-> FALSE]

\* the effect of one call on the maps and on the history variables
Record_Global(u, now_ts) ==
    LET r == record_question_and_should_offer(
                 user_question_times[u], user_offer_until[u], now_ts)
    IN  /\ user_question_times' = [user_question_times EXCEPT ![u] = r.times]
        /\ user_offer_until' = [v \in Users |-> IF r.ret THEN r.until ELSE user_offer_until[v]]
        /\ ret' = [ret EXCEPT ![u] = r.ret]
        /\ calls' = [calls EXCEPT ![u] = @ + 1]
        /\ asked' = [asked EXCEPT ![u] = IF r.ret THEN <<>> ELSE Append(@, now_ts)]
        /\ offers' = [offers EXCEPT ![u] = IF r.ret THEN Append(@, now_ts) ELSE @]
        /\ reference' = [reference EXCEPT ![u] =
                            LET ref == reference_throttle(@.times, @.until, now_ts)
                            IN  [times |-> ref.times, until |-> ref.until]]
Record(u, now_ts) ==
    LET r == record_question_and_should_offer(
                 user_question_times[u], user_offer_until[u], now_ts)
    IN  /\ user_question_times' = [user_question_times EXCEPT ![u] = r.times]
        /\ user_offer_until' = [user_offer_until EXCEPT ![u] = r.until]
        /\ ret' = [ret EXCEPT ![u] = r.ret]
        /\ calls' = [calls EXCEPT ![u] = @ + 1]
        /\ asked' = [asked EXCEPT ![u] = IF r.ret THEN <<>> ELSE Append(@, now_ts)]
        /\ offers' = [offers EXCEPT ![u] = IF r.ret THEN Append(@, now_ts) ELSE @]
        /\ reference' = [reference EXCEPT ![u] =
                            LET ref == reference_throttle(@.times, @.until, now_ts)
                            IN  [times |-> ref.times, until |-> ref.until]]

\* ------------------------------------------------------------------ catalogs
\* a catalog file: absent, or JSON with or without a list under "cards"
TarotFiles ==
    { [exists |-> FALSE, has_cards_list |-> FALSE, cards |-> <<>>],
      [exists |-> TRUE,  has_cards_list |-> FALSE, cards |-> <<>>],
      [exists |-> TRUE,  has_cards_list |-> TRUE,  cards |-> <<"Fool", "Magician">>] }
MindFiles ==
    { [exists |-> FALSE, has_cards_list |-> FALSE, cards |-> <<>>],
      [exists |-> TRUE,  has_cards_list |-> FALSE, cards |-> <<>>],
      [exists |-> TRUE,  has_cards_list |-> TRUE,  cards |-> <<"Cloud">>] }

\* load_cards: the exception raised ("none" if none) and the list returned
load_cards(file) ==
    IF ~file.exists THEN [error |-> "FileNotFoundError", cards |-> <<>>]
    ELSE IF ~file.has_cards_list THEN [error |-> "ValueError", cards |-> <<>>]
    ELSE [error |-> "none", cards |-> file.cards]

\* main() up to dp.start_polling: both loads fall back to an empty deck
main_Fatal(tarotFile, mindFile) ==
    /\ mainPc = "start"
    /\ LET t == load_cards(tarotFile)
           m == load_cards(mindFile)
       IN  /\ TAROT_CARDS' = IF t.error = "none" THEN t.cards ELSE <<>>
           /\ tarotError' = t.error
           /\ MIND_CARDS' = IF mindFile.exists /\ m.error = "none" THEN m.cards ELSE <<>>
           /\ mainPc' = IF t.error = "none" THEN "polling" ELSE "halted"
    /\ UNCHANGED <<now, throttleVars, fsm, task, offersShown, dayDrawn, promptLog>>
main(tarotFile, mindFile) ==
    /\ mainPc = "start"
    /\ LET t == load_cards(tarotFile)
           m == load_cards(mindFile)
       IN  /\ TAROT_CARDS' = IF t.error = "none" THEN t.cards ELSE <<>>
           /\ tarotError' = t.error
           /\ MIND_CARDS' = IF mindFile.exists /\ m.error = "none" THEN m.cards ELSE <<>>
    /\ mainPc' = "polling"
    /\ UNCHANGED <<now, throttleVars, fsm, task, offersShown, dayDrawn, promptLog>>

\* ------------------------------------------------------------------ day card
\* datetime.datetime.now(USER_TZ).date(), as days since 1970-01-01
Today_UTC(t) == t \div SECONDS_PER_DAY
Today(t) == (t + USER_TZ_OFFSET) \div SECONDS_PER_DAY

\* hashlib.sha256(f"{user_id}:{today}").digest() for the seeds of the model:
\* "7:1970-01-01", "7:1970-01-02", "42:1970-01-01", "42:1970-01-02"
Sha256(user_id, today) ==
    CASE user_id = 7 /\ today = 0 ->
           <<167, 118, 152, 252, 131, 229, 240, 231, 197, 133, 255, 75, 189, 239,
             188, 104, 245, 27, 178, 159, 82, 70, 167, 34, 244, 0, 5, 200, 109, 45,
             146, 234>>
      [] user_id = 7 /\ today = 1 ->
           <<208, 64, 40, 197, 251, 171, 60, 121, 233, 42, 94, 56, 189, 157, 227,
             59, 196, 113, 207, 34, 169, 140, 118, 80, 0, 153, 233, 153, 59, 30,
             37, 147>>
      [] user_id = 42 /\ today = 0 ->
           <<214, 242, 99, 63, 186, 95, 79, 45, 50, 103, 139, 162, 79, 196, 241,
             45, 220, 40, 235, 78, 85, 19, 191, 86, 174, 240, 165, 16, 183, 17, 70,
             32>>
      [] user_id = 42 /\ today = 1 ->
           <<69, 0, 185, 246, 208, 3, 40, 89, 98, 77, 51, 31, 250, 79, 121, 176,
             240, 26, 149, 99, 173, 79, 2, 99, 138, 142, 3, 69, 151, 118, 168, 26>>

\* int(h, 16) % n, taken byte by byte from the most significant one
RECURSIVE DigestMod(_, _, _)
DigestMod(bytes, n, acc) ==
    IF bytes = <<>> THEN acc
    ELSE DigestMod(Tail(bytes), n, (acc * 256 + Head(bytes)) % n)

\* stable_choice_for_user_today, the clock reading t
stable_choice_for_user_today(user_id, cards, t) ==
    cards[DigestMod(Sha256(user_id, Today(t)), Len(cards), 0) + 1]

\* all_cards = TAROT_CARDS + MIND_CARDS
AllCards(tarot, mind) == tarot \o mind

\* ------------------------------------------------------------------ updates
\* a message text is a sequence of characters; has_text is FALSE for a message
\* without text (a photo, a sticker).  The labels stand for the Russian ones.
Chars(has, txt) == [has_text |-> has, text |-> txt]
START_COMMAND == <<"/", "s", "t", "a", "r", "t">>
DAY_LABEL == <<"K", "a", "r", "t", "a", " ", "d", "n", "y", "a">>
MIND_LABEL == <<"K", "a", "r", "t", "a", " ", "o", "t", "k", "l", "i", "k", "a">>
ASK_LABEL == <<"O", "t", "v", "e", "t", " ", "n", "a", " ", "v", "o", "p", "r", "o", "s">>

Messages ==
    { Chars(TRUE, START_COMMAND), Chars(TRUE, DAY_LABEL), Chars(TRUE, MIND_LABEL),
      Chars(TRUE, ASK_LABEL),
      Chars(FALSE, <<>>),
      Chars(TRUE, <<" ", " ", " ">>),
      Chars(TRUE, <<"o", "k">>),
      Chars(TRUE, <<" ", "o", "k", "\n">>),
      Chars(TRUE, <<"w", "h", "y">>),
      Chars(TRUE, <<" ", "w", "h", "y", "?", " ">>) }

\* the updates of the runs in which the users only ask questions
PairMessages == { Chars(TRUE, ASK_LABEL), Chars(TRUE, <<"w", "h", "y">>) }

\* the updates of the runs with all users
TwoMessages ==
    { Chars(TRUE, START_COMMAND), Chars(TRUE, DAY_LABEL), Chars(TRUE, MIND_LABEL),
      Chars(TRUE, ASK_LABEL), Chars(TRUE, <<"o", "k">>), Chars(TRUE, <<"w", "h", "y">>) }

Whitespace == {" ", "\t", "\n", "\r"}

\* str.strip()
RECURSIVE LStrip(_)
LStrip(txt) == IF txt # <<>> /\ Head(txt) \in Whitespace THEN LStrip(Tail(txt)) ELSE txt
RECURSIVE RStrip(_)
RStrip(txt) ==
    IF txt # <<>> /\ txt[Len(txt)] \in Whitespace
    THEN RStrip(SubSeq(txt, 1, Len(txt) - 1)) ELSE txt
Strip(txt) == RStrip(LStrip(txt))

\* q = (message.text or "").strip()
QuestionText(m) == Strip(IF m.has_text THEN m.text ELSE <<>>)

\* len(q) < 3
TooShort_Empty(q) == Len(q) < 1
TooShort(q) == Len(q) < MIN_QUESTION_LEN

\* the filters of the router, in the order of registration: the first handler
\* whose filter takes the update handles it
IsStart(m) ==
    /\ m.has_text
    /\ Len(m.text) >= Len(START_COMMAND)
    /\ SubSeq(m.text, 1, Len(START_COMMAND)) = START_COMMAND
    /\ IF Len(m.text) = Len(START_COMMAND) THEN TRUE
       ELSE m.text[Len(START_COMMAND) + 1] = " "
IsDay(m) == ~IsStart(m) /\ m.has_text /\ m.text = DAY_LABEL
IsMind(m) == ~IsStart(m) /\ ~IsDay(m) /\ m.has_text /\ m.text = MIND_LABEL
IsAsk(m) == ~IsStart(m) /\ ~IsDay(m) /\ ~IsMind(m) /\ m.has_text /\ m.text = ASK_LABEL
IsFreeText_Any(m) == TRUE
IsFreeText(m) == ~IsStart(m) /\ ~IsDay(m) /\ ~IsMind(m) /\ ~IsAsk(m)

\* ------------------------------------------------------------------ handlers
\* An awaited call to Telegram (or the pause of deep_no) is a suspension point:
\* a handler runs up to its first one in one step and then one call per step.
\* state.clear() on MemoryStorage does not suspend.
Out(kind, card) == [kind |-> kind, card |-> card]
NoUpdate == Chars(FALSE, <<>>)
IdleTask == [h |-> "idle", msg |-> NoUpdate, todo |-> <<>>]
Running(h, m, todo) == [h |-> h, msg |-> m, todo |-> todo]

\* throttle calls so far, over the users of S
RECURSIVE TotalCalls(_)
TotalCalls(S) ==
    IF S = {} THEN 0
    ELSE LET u == CHOOSE x \in S : TRUE IN calls[u] + TotalCalls(S \ {u})

\* Updates of one user are handled one at a time: the dispatcher hands user u
\* an update once u's previous handler has returned.  Handlers of different
\* users interleave.
Ready(u) == mainPc = "polling" /\ task[u].h = "idle"

cmd_start(u, m) ==
    /\ Ready(u) /\ IsStart(m)
    /\ fsm' = [fsm EXCEPT ![u] = "none"]
    /\ task' = [task EXCEPT ![u] = Running("cmd_start", m, <<Out("greeting", "")>>)]
    /\ UNCHANGED <<now, throttleVars, mainPc, tarotError, TAROT_CARDS, MIND_CARDS,
                   offersShown, dayDrawn, promptLog>>

day_card_NoGuard(u, m, t) ==
    /\ Ready(u) /\ IsDay(m)
    /\ fsm' = [fsm EXCEPT ![u] = "none"]
    /\ t >= now
    /\ now' = t
    /\ LET all_cards == AllCards(TAROT_CARDS, MIND_CARDS)
           card == IF all_cards = <<>> THEN "ZeroDivisionError"
                   ELSE stable_choice_for_user_today(u, all_cards, t)
       IN  /\ task' = [task EXCEPT ![u] =
                          Running("day_card", m, <<Out("card", card)>>)]
           /\ dayDrawn' = [dayDrawn EXCEPT ![u] = @ \cup {<<t, card>>}]
    /\ UNCHANGED <<throttleVars, mainPc, tarotError, TAROT_CARDS, MIND_CARDS, offersShown, promptLog>>
day_card(u, m, t) ==
    /\ Ready(u) /\ IsDay(m)
    /\ fsm' = [fsm EXCEPT ![u] = "none"]
    /\ LET all_cards == AllCards(TAROT_CARDS, MIND_CARDS)
       IN  IF all_cards = <<>>
           THEN /\ task' = [task EXCEPT ![u] =
                               Running("day_card", m, <<Out("no_cards", "")>>)]
                /\ UNCHANGED <<now, dayDrawn>>
           ELSE /\ t >= now
                /\ now' = t
                /\ LET card == stable_choice_for_user_today(u, all_cards, t)
                   IN  /\ task' = [task EXCEPT ![u] =
                                      Running("day_card", m, <<Out("card", card)>>)]
                       /\ dayDrawn' = [dayDrawn EXCEPT ![u] =
                                          @ \cup {<<t, card>>}]
    /\ UNCHANGED <<throttleVars, mainPc, tarotError, TAROT_CARDS, MIND_CARDS, offersShown, promptLog>>

mind_card(u, m) ==
    /\ Ready(u) /\ IsMind(m)
    /\ fsm' = [fsm EXCEPT ![u] = "none"]
    /\ IF MIND_CARDS = <<>>
       THEN task' = [task EXCEPT ![u] =
                        Running("mind_card", m, <<Out("deck_filling", "")>>)]
       ELSE \E i \in DOMAIN MIND_CARDS :
                task' = [task EXCEPT ![u] =
                            Running("mind_card", m, <<Out("card", MIND_CARDS[i])>>)]
    /\ UNCHANGED <<now, throttleVars, mainPc, tarotError, TAROT_CARDS, MIND_CARDS,
                   offersShown, dayDrawn, promptLog>>

ask_question_start_Examples(u, m) ==
    /\ Ready(u) /\ IsAsk(m)
    /\ fsm' = [fsm EXCEPT ![u] = "waiting_for_question"]
    /\ task' = [task EXCEPT ![u] =
                   Running("ask_question_start", m,
                           <<Out("prompt", IF promptLog[u] = {} THEN "examples" ELSE "")>>)]
    /\ UNCHANGED <<now, throttleVars, mainPc, tarotError, TAROT_CARDS, MIND_CARDS,
                   offersShown, dayDrawn, promptLog>>
ask_question_start(u, m) ==
    /\ Ready(u) /\ IsAsk(m)
    /\ fsm' = [fsm EXCEPT ![u] = "waiting_for_question"]
    /\ task' = [task EXCEPT ![u] =
                   Running("ask_question_start", m, <<Out("prompt", "")>>)]
    /\ UNCHANGED <<now, throttleVars, mainPc, tarotError, TAROT_CARDS, MIND_CARDS,
                   offersShown, dayDrawn, promptLog>>

answer_question_KeepState(u, m, t) ==
    /\ Ready(u) /\ IsFreeText(m) /\ fsm[u] = "waiting_for_question"
    /\ IF TooShort(QuestionText(m))
       THEN /\ task' = [task EXCEPT ![u] =
                           Running("answer_question", m, <<Out("more_detail", "")>>)]
            /\ UNCHANGED <<now, throttleVars, fsm>>
       ELSE /\ t >= now
            /\ now' = t
            /\ Record(u, t)
            /\ UNCHANGED fsm
            /\ IF TAROT_CARDS = <<>>
               THEN task' = [task EXCEPT ![u] =
                                Running("answer_question", m, <<Out("no_tarot", "")>>)]
               ELSE \E i \in DOMAIN TAROT_CARDS :
                        task' = [task EXCEPT ![u] =
                                    Running("answer_question", m,
                                            <<Out("card", TAROT_CARDS[i])>>
                                            \o (IF ret'[u] THEN <<Out("offer", "")>>
                                                ELSE <<>>))]
    /\ UNCHANGED <<mainPc, tarotError, TAROT_CARDS, MIND_CARDS, offersShown, dayDrawn, promptLog>>
answer_question(u, m, t) ==
    /\ Ready(u) /\ IsFreeText(m) /\ fsm[u] = "waiting_for_question"
    /\ IF TooShort(QuestionText(m))
       THEN /\ task' = [task EXCEPT ![u] =
                           Running("answer_question", m, <<Out("more_detail", "")>>)]
            /\ UNCHANGED <<now, throttleVars, fsm>>
       ELSE /\ t >= now
            /\ now' = t
            /\ Record(u, t)
            /\ fsm' = [fsm EXCEPT ![u] = "none"]
            /\ IF TAROT_CARDS = <<>>
               THEN task' = [task EXCEPT ![u] =
                                Running("answer_question", m, <<Out("no_tarot", "")>>)]
               ELSE \E i \in DOMAIN TAROT_CARDS :
                        task' = [task EXCEPT ![u] =
                                    Running("answer_question", m,
                                            <<Out("card", TAROT_CARDS[i])>>
                                            \o (IF ret'[u] THEN <<Out("offer", "")>>
                                                ELSE <<>>))]
    /\ UNCHANGED <<mainPc, tarotError, TAROT_CARDS, MIND_CARDS, offersShown, dayDrawn, promptLog>>

\* a callback query can only come from the buttons of a prompt that was sent
deep_yes(u) ==
    /\ Ready(u) /\ offersShown[u] > 0
    /\ task' = [task EXCEPT ![u] =
                   Running("deep_yes", NoUpdate,
                           <<Out("handoff", ""), Out("callback_answer", "")>>)]
    /\ UNCHANGED <<now, throttleVars, mainPc, tarotError, TAROT_CARDS, MIND_CARDS,
                   fsm, offersShown, dayDrawn, promptLog>>

deep_no(u) ==
    /\ Ready(u) /\ offersShown[u] > 0
    /\ task' = [task EXCEPT ![u] =
                   Running("deep_no", NoUpdate,
                           <<Out("ok", ""), Out("callback_answer", ""),
                             Out("sleep", ""), Out("menu", "")>>)]
    /\ UNCHANGED <<now, throttleVars, mainPc, tarotError, TAROT_CARDS, MIND_CARDS,
                   fsm, offersShown, dayDrawn, promptLog>>

\* the call a handler awaits completes; after its last one the handler returns
Resume(u) ==
    /\ task[u].todo # <<>>
    /\ offersShown' = [offersShown EXCEPT ![u] =
                          IF Head(task[u].todo).kind = "offer" THEN @ + 1 ELSE @]
    /\ task' = [task EXCEPT ![u] =
                   IF Tail(task[u].todo) = <<>> THEN IdleTask
                   ELSE [@ EXCEPT !.todo = Tail(@)]]
    /\ promptLog' = [promptLog EXCEPT ![u] =
                        LET sent == Head(task[u].todo)
                        IN  IF sent.kind = "prompt" THEN @ \cup {sent}
                            ELSE IF sent.kind = "greeting" /\ @ # {} THEN @ \cup {sent}
                            ELSE @]
    /\ UNCHANGED <<now, throttleVars, mainPc, tarotError, TAROT_CARDS, MIND_CARDS,
                   fsm, dayDrawn>>

\* ------------------------------------------------------------------ initial state
Init ==
    /\ now = 0
    /\ user_question_times = [u \in Users |-> <<>>]
    /\ user_offer_until = [u \in Users |-> 0]
    /\ ret = [u \in Users |-> FALSE]
    /\ calls = [u \in Users |-> 0]
    /\ asked = [u \in Users |-> <<>>]
    /\ offers = [u \in Users |-> <<>>]
    /\ reference = [u \in Users |-> [times |-> <<>>, until |-> 0]]
    /\ mainPc = "start"
    /\ tarotError = "none"
    /\ TAROT_CARDS = <<>>
    /\ MIND_CARDS = <<>>
    /\ fsm = [u \in Users |-> "none"]
    /\ task = [u \in Users |-> IdleTask]
    /\ offersShown = [u \in Users |-> 0]
    /\ dayDrawn = [u \in Users |-> {}]
    /\ promptLog = [u \in Users |-> {}]

\* ------------------------------------------------------------------ harness
\* One run feeds one user id a non-decreasing series of timestamps.
ThrottleCall(u, t, max) ==
    /\ t >= now
    /\ calls[u] < max
    /\ \A v \in Users \ {u} : calls[v] = 0
    /\ now' = t
    /\ Record(u, t)
    /\ UNCHANGED botVars

NextThrottle == \E u \in Users, t \in ScenarioTimes : ThrottleCall(u, t, MaxCalls)
SpecThrottle == Init /\ [][NextThrottle]_vars

NextLong == \E u \in Users, t \in LongTimes : ThrottleCall(u, t, MaxLongCalls)
SpecLong == Init /\ [][NextLong]_vars

\* ------------------------------------------------------------------ the bot
\* user v has not been served yet
Untouched(v) ==
    /\ task[v] = IdleTask /\ fsm[v] = "none" /\ calls[v] = 0
    /\ dayDrawn[v] = {} /\ offersShown[v] = 0 /\ promptLog[v] = {}

\* the updates of the users of U, with clock readings of T and at most max
\* recorded questions
Startup == \E tf \in TarotFiles, mf \in MindFiles : main(tf, mf)
Starts(U, M) == \E u \in U, m \in M : cmd_start(u, m)
DayCards(U, M, T) == \E u \in U, m \in M, t \in T : day_card(u, m, t)
MindCards(U, M) == \E u \in U, m \in M : mind_card(u, m)
AskStarts(U, M) == \E u \in U, m \in M : ask_question_start(u, m)
Answers(U, M, T, max) ==
    \E u \in U, m \in M, t \in T :
        /\ TooShort(QuestionText(m)) \/ TotalCalls(Users) < max
        /\ answer_question(u, m, t)
Accepts(U) == \E u \in U : deep_yes(u)
Declines(U) == \E u \in U : deep_no(u)
Resumes(U) == \E u \in U : Resume(u)

\* One user talks to the bot in a run, up to a consultation offer and beyond.
Alone == {u \in Users : \A v \in Users \ {u} : Untouched(v)}
Next ==
    \/ Startup
    \/ Starts(Alone, Messages)
    \/ DayCards(Alone, Messages, BotTimes)
    \/ MindCards(Alone, Messages)
    \/ AskStarts(Alone, Messages)
    \/ Answers(Alone, Messages, BotTimes, MaxQuestions)
    \/ Accepts(Alone)
    \/ Declines(Alone)
    \/ Resumes(Alone)
Spec == Init /\ [][Next]_vars

\* All users talk to the bot, their handlers interleaved at the suspension
\* points; too few questions are recorded for an offer.
NextTwo ==
    \/ Startup
    \/ Starts(Users, TwoMessages)
    \/ DayCards(Users, TwoMessages, TwoTimes)
    \/ MindCards(Users, TwoMessages)
    \/ AskStarts(Users, TwoMessages)
    \/ Answers(Users, TwoMessages, TwoTimes, MaxTwoQuestions)
    \/ Resumes(Users)
SpecTwo == Init /\ [][NextTwo]_vars

\* All users ask questions, their handlers interleaved at the suspension
\* points, up to a consultation offer and the pause of deep_no.
NextPair ==
    \/ Startup
    \/ AskStarts(Users, PairMessages)
    \/ Answers(Users, PairMessages, PairTimes, MaxPairQuestions)
    \/ Declines(Users)
    \/ Resumes(Users)
SpecPair == Init /\ [][NextPair]_vars

\* ------------------------------------------------------------------ properties
\* a step in which the throttle is called for user u
CallBy(u) == calls'[u] = calls[u] + 1

\* how many entries of the sequence q lie within the window that ends at t
InWindow(q, t) ==
    Cardinality({i \in DOMAIN q : q[i] >= t - QUESTIONS_WINDOW_SECONDS})

\* C1: outside a cooldown the throttle returns TRUE exactly when the timestamps
\* passed to it since its last TRUE that lie within the window of the current
\* one, the current one included, number at least QUESTIONS_LIMIT; so a fresh
\* user fed five timestamps of one window gets FALSE four times and then TRUE.
C1_OfferExactlyAtLimit ==
    [][\A u \in Users :
          (CallBy(u) /\ ~(now' < user_offer_until[u]))
              => (ret'[u] <=> InWindow(asked[u], now') + 1 >= QUESTIONS_LIMIT)]_vars

\* C1 witness: the fifth call of a fresh user, at t = 40, returned TRUE
C1_Witness ==
    /\ calls[7] = 5 /\ now = 40 /\ ret[7] = TRUE /\ offers[7] = <<40>>

\* C2: a call made during the cooldown returns FALSE, leaves the cooldown end
\* alone and appends the timestamp to the deque (a full deque gives up its
\* oldest entry for it), whatever the deque holds.
C2_CooldownCallOnlyAppends ==
    [][\A u \in Users :
          (CallBy(u) /\ now' < user_offer_until[u])
              => /\ ret'[u] = FALSE
                 /\ user_offer_until'[u] = user_offer_until[u]
                 /\ user_question_times'[u] # <<>>
                 /\ user_question_times'[u][Len(user_question_times'[u])] = now'
                 /\ \/ user_question_times'[u] = Append(user_question_times[u], now')
                    \/ /\ Len(user_question_times[u]) = MAXLEN
                       /\ user_question_times'[u]
                              = Append(Tail(user_question_times[u]), now')]_vars

\* C2 witness: after the offer at T = 0, a call at T + 1 found the deque full
C2_Witness ==
    /\ offers[7] = <<0>> /\ now = 1 /\ ret[7] = FALSE
    /\ calls[7] = QUESTIONS_LIMIT + MAXLEN + 1
    /\ Len(user_question_times[7]) = MAXLEN

\* C3: two offers to one user are never less than COOLDOWN_SECONDS apart.
C3_OffersCooldownApart ==
    \A u \in Users : \A i, j \in DOMAIN offers[u] :
        i < j => offers[u][j] - offers[u][i] >= COOLDOWN_SECONDS

\* C3 witness: an offer at 40, questions during the cooldown, a second offer
C3_Witness ==
    /\ offers[7] = <<40, 21641>> /\ calls[7] = 10

\* C4: the expired entries are dropped before the count is taken: a call
\* outside a cooldown returns TRUE only if the deque it found held at least
\* QUESTIONS_LIMIT - 1 entries within the window of the current timestamp.
C4_OnlyInWindowCounts ==
    [][\A u \in Users :
          (CallBy(u) /\ ~(now' < user_offer_until[u]) /\ ret'[u])
              => InWindow(user_question_times[u], now') + 1 >= QUESTIONS_LIMIT]_vars

\* C4 witness: questions at 0, 100, 200, 300 and a fifth at 2000, no offer
C4_Witness ==
    /\ asked[7] = <<0, 100, 200, 300, 2000>> /\ ret[7] = FALSE /\ offers[7] = <<>>

\* C5: a call that returns TRUE at now leaves the cooldown end at
\* now + COOLDOWN_SECONDS and the deque empty.
C5_OfferSetsCooldownAndClears ==
    [][\A u \in Users :
          (CallBy(u) /\ ret'[u])
              => /\ user_offer_until'[u] = now' + COOLDOWN_SECONDS
                 /\ user_question_times'[u] = <<>>]_vars

\* C5 witness: five questions up to t = 40, one offer, on the fifth, deque empty
C5_Witness ==
    /\ calls[42] = 5 /\ now = 40 /\ offers[42] = <<40>>
    /\ user_question_times[42] = <<>> /\ user_offer_until[42] = 21640

\* the reference calendar date of instant t: the day in Amsterdam, counted
\* from 1970-01-01
ReferenceDay(t) == (t + USER_TZ_OFFSET) \div SECONDS_PER_DAY

\* C6: all day-card draws of one user on one reference date give the same card,
\* the one at index sha256(user id, date) mod length of tarot ++ mind, whatever
\* was handled between them.
C6_DayCardStable ==
    \A u \in Users : \A p, q \in dayDrawn[u] :
        /\ ReferenceDay(p[1]) = ReferenceDay(q[1]) => p[2] = q[2]
        /\ LET deck == TAROT_CARDS \o MIND_CARDS
           IN  p[2] = deck[DigestMod(Sha256(u, ReferenceDay(p[1])), Len(deck), 0) + 1]

\* C6 witness: user 42 drew at 23:00 UTC and at 00:00 UTC of the next UTC day,
\* one date in Amsterdam, and got the same card; user 7 drew a day card too
\* and a question was recorded
C6_Witness ==
    /\ \E c \in {"Fool", "Magician", "Cloud"} :
           {<<82800, c>>, <<86400, c>>} \subseteq dayDrawn[42]
    /\ dayDrawn[7] # {}
    /\ TotalCalls(Users) = 1

\* a step in which answer_question starts to handle an update of user u
AnswerBy(u) == task[u].h = "idle" /\ task'[u].h = "answer_question"

\* C7: a message whose stripped text has 0, 1 or 2 characters, handled while
\* the user is awaited a question, leaves the user in that state, draws no
\* card and leaves the user's deque and cooldown end as they were.
C7_ShortInputRejected ==
    [][\A u \in Users :
          (AnswerBy(u) /\ Len(QuestionText(task'[u].msg)) < MIN_QUESTION_LEN)
              => /\ fsm[u] = "waiting_for_question"
                 /\ fsm'[u] = "waiting_for_question"
                 /\ \A i \in DOMAIN task'[u].todo : task'[u].todo[i].kind # "card"
                 /\ user_question_times'[u] = user_question_times[u]
                 /\ user_offer_until'[u] = user_offer_until[u]
                 /\ calls'[u] = calls[u]]_vars

\* C7 witness: " ok\n" is being answered with a request for more detail, after
\* a recorded question of the same user
C7_Witness ==
    /\ task[7].h = "answer_question"
    /\ task[7].msg = Chars(TRUE, <<" ", "o", "k", "\n">>)
    /\ fsm[7] = "waiting_for_question"
    /\ calls[7] = 1 /\ Len(user_question_times[7]) = 1

\* C8: with an empty tarot deck a valid question, for which no card is drawn,
\* leaves the user's deque and cooldown end as they were.
C8_NoDrawNoRecord ==
    [][\A u \in Users :
          (AnswerBy(u) /\ TAROT_CARDS = <<>>
             /\ Len(QuestionText(task'[u].msg)) >= MIN_QUESTION_LEN)
              => /\ user_question_times'[u] = user_question_times[u]
                 /\ user_offer_until'[u] = user_offer_until[u]]_vars

\* C9: when the handler of a question has returned, every offer the throttle
\* signalled for the user has been shown: no offer is consumed without its
\* prompt being sent by the handler of that question.
C9_OfferShownWhenSignalled ==
    \A u \in Users :
        /\ task[u].h = "idle" => offersShown[u] = Len(offers[u])
        /\ Len(offers[u]) - offersShown[u] \in {0, 1}

\* C10: when deep_yes or deep_no returns, the user's FSM state is the idle one.
C10_CallbackEndsIdle ==
    [][\A u \in Users :
          (task[u].h \in {"deep_yes", "deep_no"} /\ task'[u].h = "idle")
              => fsm'[u] = "none"]_vars

\* a step in which main() leaves its start
StartupStep == mainPc = "start" /\ mainPc' # "start"

\* C11 as stated: once the load of the tarot catalog has failed (file missing,
\* or no list under "cards") the process never polls for updates.
C11_TarotFailureHalts ==
    tarotError # "none" => mainPc # "polling"

\* C11 amended: main() goes on to poll whatever the two loads did; a failed
\* load of the tarot catalog leaves the tarot deck empty and recorded as
\* failed, a successful one leaves the deck the file lists, and the response
\* deck is the listed one or empty.
C11_StartupAlwaysPolls ==
    [][StartupStep
          => /\ mainPc' = "polling"
             /\ tarotError' \in {"none", "FileNotFoundError", "ValueError"}
             /\ (tarotError' # "none" => TAROT_CARDS' = <<>>)
             /\ (tarotError' = "none" => TAROT_CARDS' = <<"Fool", "Magician">>)
             /\ MIND_CARDS' \in {<<>>, <<"Cloud">>}]_vars

\* C11 witness: cards.json was missing, the bot polls with an empty tarot deck
\* and a day card from the response deck is on its way to user 7
C11_Witness ==
    /\ mainPc = "polling" /\ tarotError = "FileNotFoundError"
    /\ TAROT_CARDS = <<>>
    /\ task[7].h = "day_card" /\ task[7].todo = <<Out("card", "Cloud")>>

\* a step in which handler h starts to handle an update of user u
HandlerStart(u, h) == task[u].h = "idle" /\ task'[u].h = h

\* the replies handler h has queued for user u in that step
Queued(u) == task'[u].todo

\* C12: the day-card, response-card and question handlers draw only from a
\* non-empty collection and then send the card at an index 0..len-1 of it; on
\* an empty collection they send the "nothing available" reply and no card.
C12_DrawsOnlyFromNonEmpty ==
    [][\A u \in Users :
          /\ HandlerStart(u, "day_card")
                => LET deck == TAROT_CARDS \o MIND_CARDS
                   IN  IF Len(deck) = 0
                       THEN Queued(u) = <<Out("no_cards", "")>>
                       ELSE \E idx \in 0 .. Len(deck) - 1 :
                                Queued(u) = <<Out("card", deck[idx + 1])>>
          /\ HandlerStart(u, "mind_card")
                => IF Len(MIND_CARDS) = 0
                   THEN Queued(u) = <<Out("deck_filling", "")>>
                   ELSE \E idx \in 0 .. Len(MIND_CARDS) - 1 :
                            Queued(u) = <<Out("card", MIND_CARDS[idx + 1])>>
          /\ (HandlerStart(u, "answer_question")
                 /\ Len(QuestionText(task'[u].msg)) >= MIN_QUESTION_LEN)
                => IF Len(TAROT_CARDS) = 0
                   THEN Queued(u) = <<Out("no_tarot", "")>>
                   ELSE \E idx \in 0 .. Len(TAROT_CARDS) - 1 :
                            Queued(u)[1] = Out("card", TAROT_CARDS[idx + 1])]_vars

\* C12 witness: with a tarot deck and no response deck, user 42 has drawn a
\* day card and a question card and is now told that the response deck is empty
C12_Witness ==
    /\ TAROT_CARDS # <<>> /\ MIND_CARDS = <<>>
    /\ dayDrawn[42] # {} /\ calls[42] >= 1
    /\ task[42].h = "mind_card" /\ task[42].todo = <<Out("deck_filling", "")>>

EvictionScenario(u) == asked[u] = <<0, 100, 200, 300, 2000>> /\ offers[u] = <<>>

\* C14 as stated: after the fifth call of the scenario the deque holds 2 entries.
C14_TwoEntriesLeft ==
    \A u \in Users : EvictionScenario(u) => Len(user_question_times[u]) = 2

\* C14 amended: after the fifth call of the scenario only entries with
\* t >= 2000 - 1800 = 200 are left, and they are 3: the two older ones and the
\* fifth itself, appended before the eviction; that is below the limit and
\* the call returned FALSE.
C14_ThreeEntriesLeft ==
    \A u \in Users :
        EvictionScenario(u)
            => /\ user_question_times[u] = <<200, 300, 2000>>
               /\ \A i \in DOMAIN user_question_times[u] :
                      user_question_times[u][i] >= 2000 - QUESTIONS_WINDOW_SECONDS
               /\ Len(user_question_times[u]) < QUESTIONS_LIMIT
               /\ ret[u] = FALSE /\ user_offer_until[u] = 0

\* C14 witness: user 42 has run the scenario
C14_Witness ==
    /\ EvictionScenario(42) /\ calls[42] = 5 /\ now = 2000
    /\ Len(user_question_times[42]) = 3

\* C15: a text of stripped length >= 3 handled while the user is awaited a
\* question makes one call of the throttle, which takes in one timestamp, and
\* leaves the user in the idle state; the throttle is called and a question is
\* answered only from the awaiting state, and only the selection of "ask a
\* question" puts the user back into it.
C15_OneQuestionPerEntry ==
    [][\A u \in Users :
          /\ (HandlerStart(u, "answer_question")
                 /\ Len(QuestionText(task'[u].msg)) >= MIN_QUESTION_LEN)
                => /\ CallBy(u)
                   /\ fsm'[u] = "none"
                   /\ \/ /\ ret'[u] = FALSE
                         /\ user_question_times'[u] # <<>>
                         /\ user_question_times'[u][Len(user_question_times'[u])] = now'
                         /\ Len(user_question_times'[u])
                                <= Len(user_question_times[u]) + 1
                      \/ /\ ret'[u] = TRUE
                         /\ user_question_times'[u] = <<>>
          /\ calls'[u] # calls[u]
                => /\ CallBy(u)
                   /\ HandlerStart(u, "answer_question")
          /\ HandlerStart(u, "answer_question") => fsm[u] = "waiting_for_question"
          /\ (fsm[u] = "none" /\ fsm'[u] = "waiting_for_question")
                => HandlerStart(u, "ask_question_start")]_vars

\* C15 witness: user 7 had a question answered, selected "ask a question"
\* again (the second prompt came after the first card) and the second
\* question has been recorded and is being answered
C15_Witness ==
    /\ calls[7] = 2 /\ Len(user_question_times[7]) = 2
    /\ fsm[7] = "none"
    /\ task[7].h = "answer_question"
    /\ task[7].msg = Chars(TRUE, <<" ", "w", "h", "y", "?", " ">>)
    /\ task[7].todo = <<Out("card", "Magician")>>

\* the menu handlers that draw no question card
MenuHandlers == {"cmd_start", "day_card", "mind_card"}

\* C16: /start, "day card" and "response card" are handled by their own
\* handlers in every FSM state: the handler leaves the user's deque and
\* cooldown end alone and the user idle, at its start and when it returns; no
\* menu label and no /start is ever taken by answer_question as a question.
C16_MenuNeverCounts ==
    [][\A u \in Users :
          /\ \A h \in MenuHandlers :
                 (task'[u].h = h \/ task[u].h = h)
                     => /\ user_question_times'[u] = user_question_times[u]
                        /\ user_offer_until'[u] = user_offer_until[u]
                        /\ calls'[u] = calls[u]
                        /\ fsm'[u] = "none"
          /\ HandlerStart(u, "answer_question")
                 => /\ task'[u].msg.text \notin {DAY_LABEL, MIND_LABEL, ASK_LABEL}
                    /\ ~IsStart(task'[u].msg)]_vars

\* C16 witness: user 7 selected "ask a question", got the prompt and then
\* sent the day-card label; the day card is on its way, the user is idle and
\* no question was ever recorded
C16_Witness ==
    /\ promptLog[7] = {Out("prompt", "")}
    /\ task[7].h = "day_card" /\ task[7].msg = Chars(TRUE, DAY_LABEL)
    /\ task[7].todo = <<Out("card", "Cloud")>>
    /\ fsm[7] = "none"
    /\ calls[7] = 0 /\ user_question_times[7] = <<>> /\ user_offer_until[7] = 0

\* what user u alone has of the state: the deque, the cooldown end, the FSM
\* state, the handler that runs and the history of the throttle
Own(u) ==
    <<user_question_times[u], user_offer_until[u], fsm[u], task[u],
      ret[u], calls[u], asked[u], offers[u]>>

\* the end of the cooldown of a user whose offers were made at offs
CooldownEnd(offs) ==
    IF offs = <<>> THEN 0 ELSE offs[Len(offs)] + COOLDOWN_SECONDS

\* the result a user handled alone gets at instant t: FALSE within the
\* cooldown of that user's last offer, else whether the user's own questions
\* since then that lie within the window, this one included, reach the limit
AloneResult(asks, offs, t) ==
    IF t < CooldownEnd(offs) THEN FALSE
    ELSE InWindow(asks, t) + 1 >= QUESTIONS_LIMIT

\* C17: a step of a handler of user u leaves the deque, the cooldown end and
\* the FSM state of every other user alone; with handlers of different users
\* interleaved, each call of the throttle returns what the user's own
\* questions and offers give, as for a user handled alone; the call, its
\* result and the update of deque and cooldown end are one step.
C17_UsersIndependent ==
    [][\A u \in Users :
          /\ Own(u)' # Own(u)
                => \A v \in Users \ {u} :
                       /\ user_question_times'[v] = user_question_times[v]
                       /\ user_offer_until'[v] = user_offer_until[v]
                       /\ fsm'[v] = fsm[v]
                       /\ ret'[v] = ret[v]
          /\ CallBy(u)
                => /\ ret'[u] = AloneResult(asked[u], offers[u], now')
                   /\ user_offer_until[u] = CooldownEnd(offers[u])
                   /\ user_offer_until'[u] = CooldownEnd(offers'[u])
                   /\ (ret'[u] <=> user_offer_until'[u] # user_offer_until[u])
                   /\ (ret'[u] <=> Queued(u) # <<>> /\ user_question_times'[u] = <<>>)]_vars

\* C17 witness: the questions of the two users alternated; user 7 asked five
\* within one window and is offered the consultation, user 42 asked two in
\* between and has a handler suspended at a send while user 7's runs
C17_Witness ==
    /\ calls[7] = 5 /\ calls[42] = 2
    /\ offers[7] # <<>> /\ offers[42] = <<>>
    /\ Len(user_question_times[42]) = 2 /\ user_offer_until[42] = 0
    /\ task[7].h = "answer_question" /\ Len(task[7].todo) = 2
    /\ task[42].h = "answer_question" /\ task[42].todo # <<>>

\* the sequence q is in ascending order
Sorted(q) == \A i, j \in DOMAIN q : i < j => q[i] <= q[j]

\* C18: fed non-decreasing instants, every deque is in ascending order before
\* and after every step, and a call outside the cooldown leaves no timestamp
\* older than now - QUESTIONS_WINDOW_SECONDS in the deque, those appended
\* during a cooldown included.
C18_SortedAndTrimmed ==
    [][\A u \in Users :
          /\ Sorted(user_question_times[u])
          /\ Sorted(user_question_times'[u])
          /\ (CallBy(u) /\ ~(now' < user_offer_until[u]))
                => \A i \in DOMAIN user_question_times'[u] :
                       user_question_times'[u][i] >= now' - QUESTIONS_WINDOW_SECONDS]_vars

\* C18 witness: after the offer at 40, questions at 41 and 21639 went into the
\* deque during the cooldown; the call at 21640, the end of the cooldown,
\* dropped the one of 41
C18_Witness ==
    /\ offers[7] = <<40>> /\ asked[7] = <<41, 21639, 21640>>
    /\ user_question_times[7] = <<21639, 21640>>
    /\ now = 21640 /\ user_offer_until[7] = 21640

\* C19: the cooldown end of a user is 0 until the throttle first returns TRUE
\* for the user, no step lowers it, and the only steps that change it are
\* calls of the throttle for that user that return TRUE.
C19_CooldownNeverDecreases ==
    [][\A u \in Users :
          /\ offers[u] = <<>> => user_offer_until[u] = 0
          /\ user_offer_until'[u] >= user_offer_until[u]
          /\ user_offer_until'[u] # user_offer_until[u]
                => /\ CallBy(u) /\ ret'[u] = TRUE
                   /\ user_offer_until'[u] > user_offer_until[u]]_vars

\* C19 witness: the cooldown end of user 42 went from 0 to 21640 and, after
\* calls that returned FALSE during and after that cooldown, on to 43241
C19_Witness ==
    /\ offers[42] = <<40, 21641>> /\ user_offer_until[42] = 21641 + COOLDOWN_SECONDS
    /\ calls[42] = 10 /\ ret[42] = TRUE

\* C20: fed non-decreasing instants, every call of the throttle returns what
\* the throttle with an unbounded deque returns for the same call, and both
\* have the same cooldown end, also after the deque of maxlen 50 has dropped
\* entries during a cooldown.
C20_CapacityNeverDecides ==
    [][\A u \in Users :
          CallBy(u)
              => /\ ret'[u] = reference_throttle(reference[u].times,
                                                 reference[u].until, now').ret
                 /\ user_offer_until'[u] = reference'[u].until]_vars

\* C20 witness: after the offer at 0, 51 questions came during the cooldown,
\* one more than the deque holds, and the question at the end of the
\* cooldown brought the second offer
C20_Witness ==
    /\ offers[7] = <<0, COOLDOWN_SECONDS>>
    /\ calls[7] = QUESTIONS_LIMIT + MAXLEN + 2
    /\ ret[7] = TRUE /\ reference[7].until = 2 * COOLDOWN_SECONDS

====
